---- MODULE Spec2Model ----
(***************************************************************************)
(* Model of the stock-sector dashboard: the Streamlit page dashboard.py    *)
(* (quarter-label parsing, the early guards with calc_summary, the         *)
(* deep-dive tab) and the engine script engine.py (the sector loop with    *)
(* calculate_cagr).                                                        *)
(*                                                                         *)
(* Conventions.  A nullable value is a sequence of length at most one:     *)
(* <<>> is NaN / NaT / None, <<v>> is the value v.  A text is a sequence   *)
(* of one-character strings.  A date is a day number, day 0 being          *)
(* 2023-01-01.  A real number that pandas computes by a division is kept   *)
(* as the exact fraction <<numerator, denominator>>, denominator > 0.      *)
(***************************************************************************)
EXTENDS Integers, Sequences, FiniteSets, TLC

VARIABLES
    \* ---- parse_quarterly_index and its caller (TAB 4) ----
    pandas,        \* the pandas generation the page runs on
    raw_index,     \* the labels of the quarterly sheet's index
    parsed,        \* the list `parsed` of parse_quarterly_index
    q_pc,          \* where the call stands
    q_index,       \* q_data.index after lines 508 and 509
    q_shown,       \* f_q.index after line 514: the quarter labels displayed
    \* ---- the page run (sidebar, early guards, TAB 6) ----
    prices_df,     \* the loaded price table
    selected_stocks,
    selected_years,
    pc,            \* position of the script run
    shown,         \* the st.warning / st.success / st.error messages shown
    exc,           \* the uncaught exception that ended the run, or <<>>
    df_sum,        \* the summary table of calc_summary
    dive,          \* what TAB 6 computed for the primary stock
    \* ---- the engine script ----
    analytics,     \* config["analytics"]
    e_i,           \* index of the sector the loop is at
    e_log,         \* one record per sector attempted
    e_files,       \* the workbooks on disk
    e_pc,
    e_data,        \* the global `data` (the prices of the last sector that had any)
    e_monthly,     \* the global `monthly_returns`, or <<>>
    \* ---- the correlation views (TAB 2, TAB 6) and the daily view (TAB 5) ----
    corr_cache,    \* the st.cache_data entry of compute_corr, or <<>>
    tab2,          \* what the correlation section of TAB 2 showed, or <<>>
    bar,           \* what the correlation bar of TAB 6 showed, or <<>>
    sel_months,    \* the months selected in TAB 5
    day_view       \* what TAB 5 showed, or <<>>

parseVars  == <<pandas, raw_index, parsed, q_pc, q_index, q_shown>>
tabVars    == <<corr_cache, tab2, bar, sel_months, day_view>>
pageVars   == <<prices_df, selected_stocks, selected_years, pc, shown, exc, df_sum, dive>>
engineVars == <<analytics, e_i, e_log, e_files, e_pc, e_data, e_monthly>>
vars       == <<parseVars, pageVars, engineVars, tabVars>>

----------------------------------------------------------------------------
(* Nullable values and small helpers                                       *)

Null == <<>>
Some(v) == <<v>>
NaT == Null

Min2(a, b) == IF a <= b THEN a ELSE b
Max2(a, b) == IF a >= b THEN a ELSE b

\* The last element of a non-empty sequence (Series.iloc[-1]).
Last(s) == s[Len(s)]

RECURSIVE Gcd(_, _)
Gcd(a, b) == IF b = 0 THEN a ELSE Gcd(b, a % b)

Abs(a) == IF a < 0 THEN -a ELSE a

\* A fraction in lowest terms.
Frac(n, d) ==
    LET g == Gcd(Abs(n), d)
    IN  IF g = 0 THEN <<n, d>> ELSE <<n \div g, d \div g>>

FracLeq(a, b) == a[1] * b[2] <= b[1] * a[2]
FracLt(a, b)  == a[1] * b[2] <  b[1] * a[2]
FracAdd(a, b) == Frac(a[1] * b[2] + b[1] * a[2], a[2] * b[2])
FracSub(a, b) == Frac(a[1] * b[2] - b[1] * a[2], a[2] * b[2])
FracMul(a, b) == Frac(a[1] * b[1], a[2] * b[2])

----------------------------------------------------------------------------
(* Text: str.strip, str.replace, slicing, int()                            *)

Digits == <<"0", "1", "2", "3", "4", "5", "6", "7", "8", "9">>
IsDigit(c) == \E k \in 1..10 : Digits[k] = c
DigitVal(c) == (CHOOSE k \in 1..10 : Digits[k] = c) - 1

\* str.strip(): leading and trailing blanks removed.
RECURSIVE LStrip(_)
LStrip(s) == IF s # <<>> /\ s[1] = " " THEN LStrip(Tail(s)) ELSE s
RECURSIVE RStrip(_)
RStrip(s) == IF s # <<>> /\ s[Len(s)] = " " THEN RStrip(SubSeq(s, 1, Len(s) - 1)) ELSE s
Strip(s) == RStrip(LStrip(s))

\* s.replace(c, ""): every occurrence of the character c removed.
Remove(s, c) == SelectSeq(s, LAMBDA ch : ch # c)

\* Python slices: s[a:] and s[:b] never fail, s[k] fails past the end.
SliceFrom(s, a) == SubSeq(s, a + 1, Len(s))
SliceTo(s, b)   == SubSeq(s, 1, Min2(b, Len(s)))

RECURSIVE DigitsValue(_, _)
DigitsValue(s, acc) ==
    IF s = <<>> THEN acc
    ELSE IF s[1] = "_" THEN DigitsValue(Tail(s), acc)
    ELSE DigitsValue(Tail(s), acc * 10 + DigitVal(s[1]))

\* int(text): an optional sign, then decimal digits, single underscores allowed
\* between digits; anything else is a ValueError (Null here).  A text of more
\* than nine digits is a number no year can be (Timestamp rejects it), and is
\* given as Null as well.
PyInt(s) ==
    LET neg  == s # <<>> /\ s[1] = "-"
        body == IF s # <<>> /\ s[1] \in {"+", "-"} THEN Tail(s) ELSE s
        ok   == /\ body # <<>>
                /\ Len(body) <= 9
                /\ \A k \in 1..Len(body) :
                      \/ IsDigit(body[k])
                      \/ /\ body[k] = "_"
                         /\ k > 1 /\ k < Len(body)
                         /\ IsDigit(body[k - 1]) /\ IsDigit(body[k + 1])
    IN  IF ~ok THEN Null
        ELSE Some(IF neg THEN -DigitsValue(body, 0) ELSE DigitsValue(body, 0))

----------------------------------------------------------------------------
(* parse_quarterly_index                                                   *)

PandasBuilds == {"2.x", "3.x"}

\* month = (q - 1) * 3 + 1
AnchorMonth(q) == (q - 1) * 3 + 1

\* The first of a month lies inside the datetime64[ns] range
\* 1677-09-21 .. 2262-04-11.
InNsBounds(y, m) ==
    /\ y > 1677 \/ (y = 1677 /\ m >= 10)
    /\ y < 2262 \/ (y = 2262 /\ m <= 4)

\* pd.Timestamp(year=y, month=month, day=1): a ValueError (Null here) unless
\* 1 <= y <= 9999 and 1 <= month <= 12; the value keeps microsecond resolution,
\* so a year outside the nanosecond range is accepted.
Timestamp(y, month, day) ==
    IF y >= 1 /\ y <= 9999 /\ month >= 1 /\ month <= 12
    THEN Some(<<y, month, day>>) ELSE Null

\* The body of the loop for one label x: what is appended to `parsed`.  Every
\* exception raised inside the try block appends NaT.
ParseLabel(x) ==
    LET s      == Strip(x)
        s_norm == Remove(Remove(s, "-"), " ")
    IN  IF SliceTo(s_norm, 1) = <<"Q">>
        THEN IF Len(s_norm) < 2 THEN NaT                       \* IndexError
             ELSE LET q == PyInt(<<s_norm[2]>>)
                      y == PyInt(SliceFrom(s_norm, 2))
                  IN  IF q = Null \/ y = Null THEN NaT         \* ValueError
                      ELSE LET ts == Timestamp(y[1], AnchorMonth(q[1]), 1)
                           IN  IF ts = Null THEN NaT ELSE ts[1]
        ELSE LET y == PyInt(SliceTo(s_norm, 4))
             IN  IF y = Null THEN NaT                          \* ValueError
                 ELSE IF Len(s_norm) < 6 THEN NaT              \* IndexError
                 ELSE LET q == PyInt(<<s_norm[6]>>)
                      IN  IF q = Null THEN NaT
                          ELSE LET ts == Timestamp(y[1], AnchorMonth(q[1]), 1)
                               IN  IF ts = Null THEN NaT ELSE ts[1]

\* pd.DatetimeIndex(parsed), outside the try block: pandas 2.x converts every
\* element to nanoseconds and raises OutOfBoundsDatetime for one that does not
\* fit; pandas 3.x keeps the elements' resolution.
DatetimeIndexRaises(build, list) ==
    /\ build = "2.x"
    /\ \E k \in 1..Len(list) : list[k] # NaT /\ ~InNsBounds(list[k][1], list[k][2])

----------------------------------------------------------------------------
(* The labels a quarterly sheet's index can hold (after str())             *)

YearText(y) ==
    << Digits[((y \div 1000) % 10) + 1], Digits[((y \div 100) % 10) + 1],
       Digits[((y \div 10) % 10) + 1],   Digits[(y % 10) + 1] >>
QText(q) == <<"Q", Digits[q + 1]>>

\* "2024Q1", "Q1-2024", "2024-Q1", "Q1 2024"
FormYQ(y, q)     == YearText(y) \o QText(q)
FormQDashY(y, q) == QText(q) \o <<"-">> \o YearText(y)
FormYDashQ(y, q) == YearText(y) \o <<"-">> \o QText(q)
FormQSpaceY(y, q) == QText(q) \o <<" ">> \o YearText(y)
Forms(y, q) == {FormYQ(y, q), FormQDashY(y, q), FormYDashQ(y, q), FormQSpaceY(y, q)}

LabelYears    == {1500, 2024}
LabelQuarters == 0..5

\* "YYYY-MM-15" and a timestamp rendered as text
DateText(y, mm) == YearText(y) \o <<"-">> \o mm \o <<"-", "1", "5">>
StampText(y, mm) ==
    YearText(y) \o <<"-">> \o mm \o <<"-", "0", "1", " ", "0", "0", ":", "0", "0", ":", "0", "0">>

OtherLabels ==
    { <<"Q", "1", "-", "2", "4">>,                      \* "Q1-24"
      YearText(2024) \o <<"X", "1">>,                   \* "2024X1"
      FormYQ(2024, 1) \o <<"X">>,                       \* "2024Q1X"
      FormQDashY(2024, 1) \o <<"X">>,                   \* "Q1-2024X"
      <<"Q", "X", "-">> \o YearText(2024),              \* "QX-2024"
      <<" ">> \o FormYQ(2024, 2) \o <<" ">>,            \* " 2024Q2 "
      DateText(2024, <<"0", "1">>), DateText(2024, <<"0", "4">>),
      DateText(2024, <<"0", "6">>), DateText(2024, <<"1", "1">>),
      StampText(2024, <<"0", "4">>),
      <<>>, <<"n", "a", "n">>, <<"Q">>, YearText(2024) }

Labels ==
    UNION { Forms(y, q) : y \in LabelYears, q \in LabelQuarters } \cup OtherLabels

\* The longest index of the quarterly sheet.
MaxLabels == 2

----------------------------------------------------------------------------
(* Idle values of the parts a specification does not run                   *)

IdleParse ==
    /\ pandas = "2.x" /\ raw_index = <<>> /\ parsed = <<>>
    /\ q_pc = "idle" /\ q_index = <<>> /\ q_shown = <<>>
IdlePage ==
    /\ prices_df = [index |-> <<>>, cols |-> <<>>]
    /\ selected_stocks = <<>> /\ selected_years = {}
    /\ pc = "idle" /\ shown = <<>> /\ exc = Null
    /\ df_sum = <<>> /\ dive = <<>>
IdleTabs ==
    /\ corr_cache = Null /\ tab2 = Null /\ bar = Null
    /\ sel_months = {} /\ day_view = Null
IdleEngine ==
    /\ analytics = <<>> /\ e_i = 0 /\ e_log = <<>> /\ e_files = {} /\ e_pc = "idle"
    /\ e_data = Null /\ e_monthly = Null

----------------------------------------------------------------------------
(* TAB 4: q_data.index = parse_quarterly_index(q_data.index), then the      *)
(* caller's filter on notna()                                              *)

InitParse ==
    /\ pandas \in PandasBuilds
    /\ raw_index \in UNION { [1..n -> Labels] : n \in 0..MaxLabels }
    /\ parsed = <<>>
    /\ q_pc = "loop"
    /\ q_index = <<>> /\ q_shown = <<>>
    /\ IdlePage /\ IdleEngine /\ IdleTabs

\* One iteration of `for x in raw_index`.
ParseStep ==
    /\ q_pc = "loop"
    /\ Len(parsed) < Len(raw_index)
    /\ parsed' = Append(parsed, ParseLabel(raw_index[Len(parsed) + 1]))
    /\ UNCHANGED <<pandas, raw_index, q_pc, q_index, q_shown, pageVars, engineVars, tabVars>>

\* return pd.DatetimeIndex(parsed), assigned to q_data.index (line 508).
ParseReturn ==
    /\ q_pc = "loop"
    /\ Len(parsed) = Len(raw_index)
    /\ ~DatetimeIndexRaises(pandas, parsed)
    /\ q_index' = parsed
    /\ q_pc' = "returned"
    /\ UNCHANGED <<pandas, raw_index, parsed, q_shown, pageVars, engineVars, tabVars>>

\* pd.DatetimeIndex(parsed) raises: nothing catches it, the page run ends.
ParseRaise ==
    /\ q_pc = "loop"
    /\ Len(parsed) = Len(raw_index)
    /\ DatetimeIndexRaises(pandas, parsed)
    /\ q_pc' = "raised"
    /\ UNCHANGED <<pandas, raw_index, parsed, q_index, q_shown, pageVars, engineVars, tabVars>>

\* q_data = q_data[q_data.index.notna()] (line 509).
Tab4Filter ==
    /\ q_pc = "returned"
    /\ q_index' = SelectSeq(q_index, LAMBDA a : a # NaT)
    /\ q_pc' = "filtered"
    /\ UNCHANGED <<pandas, raw_index, parsed, q_shown, pageVars, engineVars, tabVars>>

\* A number in decimal digits, as str(int) writes it (no padding).
RECURSIVE DecText(_)
DecText(n) == IF n < 10 THEN <<Digits[n + 1]>> ELSE DecText(n \div 10) \o <<Digits[(n % 10) + 1]>>

\* index.to_period("Q").astype(str) of an anchor: the year, "Q", the quarter.
PeriodText(a) == DecText(a[1]) \o <<"Q">> \o DecText(((a[2] - 1) \div 3) + 1)

\* sort_index(ascending=False) of the anchors (line 513).
AnchorKey(a) == a[1] * 10000 + a[2] * 100 + a[3]
RECURSIVE InsertDescending(_, _)
InsertDescending(a, sorted) ==
    IF sorted = <<>> \/ AnchorKey(a) >= AnchorKey(Head(sorted)) THEN <<a>> \o sorted
    ELSE <<Head(sorted)>> \o InsertDescending(a, Tail(sorted))
RECURSIVE SortDescending(_)
SortDescending(ix) ==
    IF ix = <<>> THEN <<>> ELSE InsertDescending(Head(ix), SortDescending(Tail(ix)))

\* Lines 513-514: the anchors newest first, then
\* f_q.index = f_q.index.to_period("Q").astype(str), for a stock selection
\* matching the sheet and every year of the sheet selected.
Tab4Labels ==
    /\ q_pc = "filtered"
    /\ q_shown' = [k \in 1..Len(q_index) |-> PeriodText(SortDescending(q_index)[k])]
    /\ q_pc' = "shown"
    /\ UNCHANGED <<pandas, raw_index, parsed, q_index, pageVars, engineVars, tabVars>>

NextParse == ParseStep \/ ParseReturn \/ ParseRaise \/ Tab4Filter \/ Tab4Labels

SpecParse == InitParse /\ [][NextParse]_vars

----------------------------------------------------------------------------
(* The price table: prices_df = load_prices(file_path)                     *)

\* DatetimeIndex.year of a day number (day 0 is 2023-01-01, 2024 is a leap year).
YearOf(d) ==
    IF d < 365 THEN 2023 ELSE IF d < 731 THEN 2024 ELSE IF d < 1096 THEN 2025 ELSE 2026

Tickers == {"A", "B"}
\* all_stocks = sorted(prices_df.columns.tolist())
all_stocks == <<"A", "B">>

\* The highest price of a short table.
MaxPrice == 2
\* The number of trading days of a long table.
LongLen == 300

Cells == {Null} \cup {Some(p) : p \in 1..MaxPrice}

\* A short table: five trading days, 2023-01-02, 2023-02-07 (36 days later),
\* 2023-02-08, 2024-06-09 and 2025-02-10; stock A has any price or none on each,
\* stock B has no price at all, one price, or a price on every day.
ShortIndex == <<1, 37, 38, 525, 771>>
ShortColumnsB ==
    { [k \in 1..5 |-> Null],
      [k \in 1..5 |-> IF k = 4 THEN Some(1) ELSE Null],
      <<Some(2), Some(1), Some(1), Some(2), Some(1)>> }
ShortTables ==
    { [index |-> ShortIndex, cols |-> [t \in Tickers |-> IF t = "A" THEN a ELSE b]] :
        a \in [1..5 -> Cells], b \in ShortColumnsB }

\* A long table: LongLen consecutive days from 2023-04-11 on (265 of them in
\* 2023, the rest in 2024); stock A holds one price level up to the 150th day,
\* a second up to the 280th and a third after it; stock B is flat.
LongIndex == [k \in 1..LongLen |-> 99 + k]
LongLevels == {1, 2}
LongColumn(a, b, c) ==
    [k \in 1..LongLen |-> Some(IF k <= 150 THEN a ELSE IF k <= 280 THEN b ELSE c)]
LongTables ==
    { [index |-> LongIndex,
       cols |-> [t \in Tickers |-> IF t = "A" THEN LongColumn(a, b, c)
                                             ELSE [k \in 1..LongLen |-> Some(1)]]] :
        a \in LongLevels, b \in LongLevels, c \in LongLevels }

PriceTables == ShortTables \cup LongTables

\* available_years = prices_df.index.year.unique()
AvailableYears(df) == {YearOf(df.index[k]) : k \in 1..Len(df.index)}

\* The positions 1..n of a table's rows.
Rows(df) == [k \in 1..Len(df.index) |-> k]

\* prices_df[prices_df.index.year.isin(selected_years)][selected_stocks]
FilterYears(df, years, stocks) ==
    LET kept == SelectSeq(Rows(df), LAMBDA k : YearOf(df.index[k]) \in years)
    IN  [index |-> [j \in 1..Len(kept) |-> df.index[kept[j]]],
         cols  |-> [t \in {stocks[i] : i \in 1..Len(stocks)} |->
                       [j \in 1..Len(kept) |-> df.cols[t][kept[j]]]]]

\* df[ticker].dropna(): the series of <<date, price>> points that hold a price.
DropNa(df, ticker) ==
    LET kept == SelectSeq(Rows(df), LAMBDA k : df.cols[ticker][k] # Null)
    IN  [j \in 1..Len(kept) |-> <<df.index[kept[j]], df.cols[ticker][kept[j]][1]>>]

\* DataFrame.empty: no row or no column.
IsEmptyFrame(df) == Len(df.index) = 0 \/ DOMAIN df.cols = {}

----------------------------------------------------------------------------
(* calc_summary                                                            *)

\* col.pct_change().dropna(): the day-over-day changes, as fractions.
PctChange(col) ==
    [k \in 1..(Len(col) - 1) |-> Frac(col[k + 1][2] - col[k][2], col[k][2])]

\* The sum of a sequence of fractions (summed by halves).
RECURSIVE FracSum(_)
FracSum(fs) ==
    IF fs = <<>> THEN <<0, 1>>
    ELSE IF Len(fs) = 1 THEN fs[1]
    ELSE LET h == Len(fs) \div 2
         IN  FracAdd(FracSum(SubSeq(fs, 1, h)), FracSum(SubSeq(fs, h + 1, Len(fs))))

\* Series.std() squared (ddof = 1): Null for fewer than two values.
Variance(fs) ==
    LET m  == Len(fs)
        s1 == FracSum(fs)
        s2 == FracSum([k \in 1..m |-> FracMul(fs[k], fs[k])])
    IN  IF m < 2 THEN Null
        ELSE Some(FracMul(FracSub(FracMul(<<m, 1>>, s2), FracMul(s1, s1)),
                          <<1, m * (m - 1)>>))

\* max(days / 365.25, 0.1)
FlooredYears(days) ==
    LET y == Frac(days * 100, 36525)
    IN  IF FracLeq(<<1, 10>>, y) THEN y ELSE <<1, 10>>

\* ((last / first) ** (1 / yrs) - 1) * 100, kept as its base and its years.
PowPct(last, first, yrs) == [kind |-> "pow", base |-> Frac(last, first), yrs |-> yrs]

\* std * sqrt(252) * 100, kept as the variance under the root; NaN is Null.
AnnVol(daily_ret) ==
    IF Len(daily_ret) > 1 THEN Variance(daily_ret) ELSE Null

\* A ratio taken whenever the volatility is a number, zero included.
SharpeUnguarded(cagr, vol) ==
    IF vol # Null THEN Some([cagr |-> cagr, vol |-> vol[1]]) ELSE Null

\* cagr / vol when vol is a number above 0, else NaN.
Sharpe(cagr, vol) ==
    IF vol # Null /\ vol[1][1] > 0 THEN Some([cagr |-> cagr, vol |-> vol[1]]) ELSE Null

\* The row of one ticker (lines 147-162).
SummaryRow(ticker, col) ==
    LET daily_ret == PctChange(col)
        days      == Last(col)[1] - col[1][1]
        yrs       == FlooredYears(days)
        ret       == Frac((Last(col)[2] - col[1][2]) * 100, col[1][2])
        cagr      == PowPct(Last(col)[2], col[1][2], yrs)
        vol       == AnnVol(daily_ret)
    IN  [Ticker |-> ticker, Return |-> ret, CAGR |-> cagr, AnnVol |-> vol,
         Sharpe |-> Sharpe(cagr, vol), Latest |-> Last(col)[2], years |-> yrs]

\* The rows list: tickers with fewer than two prices are skipped (line 145).
RECURSIVE SummaryRows(_, _)
SummaryRows(filtered_df, stocks) ==
    IF stocks = <<>> THEN <<>>
    ELSE LET col  == DropNa(filtered_df, stocks[1])
             rest == SummaryRows(filtered_df, Tail(stocks))
         IN  IF Len(col) < 2 THEN rest
             ELSE <<SummaryRow(stocks[1], col)>> \o rest

\* sort_values("Return %", ascending=False): insertion into a descending list.
RECURSIVE SortByReturn(_)
InsertByReturn(row, sorted) ==
    LET before == SelectSeq(sorted, LAMBDA r : FracLeq(row.Return, r.Return))
        after  == SelectSeq(sorted, LAMBDA r : ~FracLeq(row.Return, r.Return))
    IN  before \o <<row>> \o after
SortByReturn(rows) ==
    IF rows = <<>> THEN <<>>
    ELSE InsertByReturn(Last(rows), SortByReturn(SubSeq(rows, 1, Len(rows) - 1)))

\* calc_summary: pd.DataFrame(rows).sort_values("Return %") raises KeyError
\* when rows is empty, the frame having no column of that name.
calc_summary(filtered_df, stocks) ==
    LET rows == SummaryRows(filtered_df, stocks)
    IN  IF rows = <<>> THEN [raised |-> Some("KeyError"), df |-> <<>>]
        ELSE [raised |-> Null, df |-> SortByReturn(rows)]

----------------------------------------------------------------------------
(* TAB 6: the deep-dive of one stock                                       *)

\* The windows of the two moving averages (lines 680 and 681).
FastWindow == 50
SlowWindow == 200

\* The running sums v1, v1+v2, ... of a series' prices (computed by halves).
RECURSIVE CumSum(_)
CumSum(col) ==
    IF col = <<>> THEN <<>>
    ELSE IF Len(col) = 1 THEN <<col[1][2]>>
    ELSE LET h     == Len(col) \div 2
             left  == CumSum(SubSeq(col, 1, h))
             right == CumSum(SubSeq(col, h + 1, Len(col)))
         IN  left \o [k \in 1..Len(right) |-> Last(left) + right[k]]

\* A mean over the prices seen so far, at most w of them, with no NaN on the
\* first w-1 dates.
ExpandingMean(col, w) ==
    LET cs == CumSum(col)
    IN  [k \in 1..Len(col) |->
            <<col[k][1],
              IF k < w THEN Some(Frac(cs[k], k))
              ELSE Some(Frac(cs[k] - (IF k = w THEN 0 ELSE cs[k - w]), w))>>]

\* series.rolling(w).mean(): NaN on the first w-1 dates, then the mean of the
\* last w prices; one <<date, nullable mean>> per date of the series.
RollingMean(col, w) ==
    LET cs == CumSum(col)
    IN  [k \in 1..Len(col) |->
            <<col[k][1],
              IF k < w THEN Null
              ELSE Some(Frac(cs[k] - (IF k = w THEN 0 ELSE cs[k - w]), w))>>]

\* series.reindex(index): the value the series holds on each date of index, NaN
\* on a date the series does not have.  Both are in ascending date order; when
\* every date of index is a date of the series, the values are those of the
\* series' points on these dates, in order.
Reindex(series, index) ==
    LET wanted == {index[j] : j \in 1..Len(index)}
        dates  == {series[k][1] : k \in 1..Len(series)}
        hits   == SelectSeq(series, LAMBDA pt : pt[1] \in wanted)
    IN  IF wanted \subseteq dates
        THEN [j \in 1..Len(index) |-> hits[j][2]]
        ELSE [j \in 1..Len(index) |->
                 IF index[j] \in dates
                 THEN series[CHOOSE k \in 1..Len(series) : series[k][1] = index[j]][2]
                 ELSE Null]

\* The dates of a series.
IndexOf(col) == [k \in 1..Len(col) |-> col[k][1]]

\* x.dropna().iloc[-1] if not x.dropna().empty else None
LastValid(xs) ==
    LET valid == SelectSeq(xs, LAMBDA x : x # Null)
    IN  IF valid = <<>> THEN Null ELSE Last(valid)

\* ma50 > ma200, elementwise: a comparison with NaN is False.
GreaterThan(a, b) == a # Null /\ b # Null /\ FracLt(b[1], a[1])

\* (ma50 > ma200).dropna(): one <<date, boolean>> per date of the index; a
\* boolean is never NaN, so dropna() removes nothing.
CrossSeries(index, ma50, ma200) ==
    [k \in 1..Len(index) |-> <<index[k], GreaterThan(ma50[k], ma200[k])>>]

\* cross_series != cross_series.shift(1): the shifted series holds NaN on the
\* first date, and a boolean differs from NaN.
DiffersFromShift(cross, k) == k = 1 \/ cross[k][2] # cross[k - 1][2]

\* cross_series[cross_series != cross_series.shift(1)]: the dates kept.
RegimeChange(cross) ==
    LET kept == SelectSeq([k \in 1..Len(cross) |-> k],
                          LAMBDA k : DiffersFromShift(cross, k))
    IN  [j \in 1..Len(kept) |-> cross[kept[j]][1]]

\* series.cummax(): the running maximum of a series' prices (computed by halves).
RECURSIVE CumMaxSeq(_)
CumMaxSeq(col) ==
    IF col = <<>> THEN <<>>
    ELSE IF Len(col) = 1 THEN <<col[1][2]>>
    ELSE LET h     == Len(col) \div 2
             left  == CumMaxSeq(SubSeq(col, 1, h))
             right == CumMaxSeq(SubSeq(col, h + 1, Len(col)))
         IN  left \o [k \in 1..Len(right) |-> Max2(Last(left), right[k])]

\* A drawdown measured from the first price of the series instead of the
\* running maximum.
DrawdownFromFirst(col) ==
    [k \in 1..Len(col) |-> Frac((col[k][2] - col[1][2]) * 100, col[1][2])]

\* (series / series.cummax() - 1) * 100, one fraction per date.
Drawdown(col) ==
    LET cm == CumMaxSeq(col)
    IN  [k \in 1..Len(col) |-> Frac((col[k][2] - cm[k]) * 100, cm[k])]

\* A drawdown measured against the maximum of the whole window instead of the
\* running maximum.
DdPeriodGlobalMax(s_data) ==
    [k \in 1..Len(s_data) |->
        Frac((s_data[k][2] - Last(CumMaxSeq(s_data))) * 100, Last(CumMaxSeq(s_data)))]

\* dd_period = (s_data / s_data.cummax() - 1) * 100
DdPeriod(s_data) == Drawdown(s_data)
\* dd_alltime = (full_series / full_series.cummax() - 1) * 100
DdAllTime(full_series) == Drawdown(full_series)

\* Series.min() of a non-empty series of fractions.
RECURSIVE FracMin(_)
FracMin(fs) ==
    IF Len(fs) = 1 THEN fs[1]
    ELSE LET h == Len(fs) \div 2
             a == FracMin(SubSeq(fs, 1, h))
             b == FracMin(SubSeq(fs, h + 1, Len(fs)))
         IN  IF FracLeq(a, b) THEN a ELSE b

\* s_data.max()
SeriesMax(col) == Last(CumMaxSeq(col))

\* The MA crossover signal (lines 680-708).
Signal(s_data, full_series) ==
    LET index      == IndexOf(s_data)
        ma50       == Reindex(RollingMean(full_series, FastWindow), index)
        ma200      == Reindex(RollingMean(full_series, SlowWindow), index)
        last_ma50  == LastValid(ma50)
        last_ma200 == LastValid(ma200)
        cross      == CrossSeries(index, ma50, ma200)
        regime     == RegimeChange(cross)
        both       == last_ma50 # Null /\ last_ma200 # Null
        computed   == both /\ cross # <<>>
    IN  [ma50 |-> ma50, ma200 |-> ma200,
         cross_series  |-> IF both THEN Some(cross) ELSE Null,
         regime_change |-> IF computed THEN Some(regime) ELSE Null,
         days_since    |-> IF computed /\ Len(regime) > 0
                           THEN Some(Last(index) - Last(regime)) ELSE Null,
         message       |-> IF computed THEN (IF Last(cross)[2] THEN <<"bullish">> ELSE <<"bearish">>)
                           ELSE IF both THEN <<>>
                           ELSE <<"insufficient_ma">>,
         missing       |-> IF both THEN {}
                           ELSE (IF last_ma50 = Null THEN {"50 DMA"} ELSE {})
                                \cup (IF last_ma200 = Null THEN {"200 DMA"} ELSE {})]

\* The five metrics (lines 717-722), each the number shown or Null when none
\* is shown; s_data.iloc[-1] raises IndexError on an empty series, before any
\* of them is shown.
Metrics(s_data, dd_period, dd_alltime) ==
    IF s_data = <<>>
    THEN [raised |-> Some("IndexError"), current_price |-> Null, period_return |-> Null,
          max_price |-> Null, period_max_dd |-> Null, alltime_max_dd |-> Null]
    ELSE [raised |-> Null,
          current_price  |-> Some(Last(s_data)[2]),
          period_return  |-> Some(Frac((Last(s_data)[2] - s_data[1][2]) * 100, s_data[1][2])),
          max_price      |-> Some(SeriesMax(s_data)),
          period_max_dd  |-> Some(FracMin(dd_period)),
          alltime_max_dd |-> Some(FracMin(dd_alltime))]

\* The whole block `if target_stock:` up to the charts (lines 675-793).
DeepDive(df, filtered, target, compare) ==
    LET s_data      == DropNa(filtered, target)
        full_series == DropNa(df, target)
        signal      == Signal(s_data, full_series)
        dd_period   == DdPeriod(s_data)
        dd_alltime  == DdAllTime(full_series)
        period_vol  == Variance(PctChange(s_data))
        metrics     == Metrics(s_data, dd_period, dd_alltime)
        cs_data     == IF compare = Null THEN <<>> ELSE DropNa(filtered, compare[1])
        raised      == IF metrics.raised # Null THEN metrics.raised           \* line 718
                       ELSE IF compare # Null /\ cs_data = <<>>
                            THEN Some("IndexError")                           \* line 743
                       ELSE Null
    IN  [target |-> target, compare |-> compare,
         s_index |-> IndexOf(s_data), full_index |-> IndexOf(full_series),
         signal |-> signal,
         dd_period |-> dd_period, dd_alltime |-> dd_alltime,
         period_vol |-> period_vol, metrics |-> metrics, raised |-> raised]

----------------------------------------------------------------------------
(* The page run: sidebar, early guards, TAB 6                              *)

SeqToSet(q) == {q[k] : k \in 1..Len(q)}
\* The selected stocks, in the order of all_stocks.
StockSelections == {SelectSeq(all_stocks, LAMBDA t : t \in pick) : pick \in SUBSET Tickers}

\* filtered_prices (line 275)
filtered_prices == FilterYears(prices_df, selected_years, selected_stocks)

InitPage ==
    /\ prices_df \in PriceTables
    /\ selected_stocks = <<>> /\ selected_years = {}
    /\ pc = "sidebar"
    /\ shown = <<>> /\ exc = Null
    /\ df_sum = <<>> /\ dive = <<>>
    /\ IdleParse /\ IdleEngine /\ IdleTabs

\* The sidebar widgets: the stocks and the years the user has selected.
Sidebar ==
    /\ pc = "sidebar"
    /\ selected_stocks' \in StockSelections
    /\ selected_years' \in SUBSET AvailableYears(prices_df)
    /\ pc' = "guards"
    /\ UNCHANGED <<prices_df, shown, exc, df_sum, dive, parseVars, engineVars, tabVars>>

\* The early guards (lines 267-287): each st.stop() ends the run; calc_summary
\* (line 281) may raise.
EarlyGuards ==
    /\ pc = "guards"
    /\ LET stop(msg) == /\ shown' = Append(shown, msg)
                        /\ pc' = "stopped"
                        /\ UNCHANGED <<exc, df_sum>>
       IN  IF selected_years = {} THEN stop("select_year")
           ELSE IF selected_stocks = <<>> THEN stop("select_stock")
           ELSE IF IsEmptyFrame(filtered_prices) THEN stop("no_data")
           ELSE LET r == calc_summary(filtered_prices, selected_stocks)
                IN  IF r.raised # Null
                    THEN /\ exc' = r.raised
                         /\ pc' = "crashed"
                         /\ UNCHANGED <<shown, df_sum>>
                    ELSE IF r.df = <<>> THEN stop("not_enough_data")
                    ELSE /\ df_sum' = r.df
                         /\ pc' = "tabs"
                         /\ UNCHANGED <<shown, exc>>
    /\ UNCHANGED <<prices_df, selected_stocks, selected_years, dive, parseVars, engineVars, tabVars>>

\* TAB 6 for the primary stock and the compare stock chosen in its select boxes.
Tab6 ==
    /\ pc = "tabs"
    /\ \E target \in SeqToSet(selected_stocks) :
       \E compare \in {Null} \cup {Some(t) : t \in SeqToSet(selected_stocks) \ {target}} :
          LET r == DeepDive(prices_df, filtered_prices, target, compare)
          IN  /\ dive' = r
              /\ shown' = shown \o r.signal.message
              /\ exc' = r.raised
              /\ pc' = IF r.raised = Null THEN "done" ELSE "crashed"
    /\ UNCHANGED <<prices_df, selected_stocks, selected_years, df_sum, parseVars, engineVars, tabVars>>

\* A widget change reruns the script from the top.
Rerun ==
    /\ pc \in {"stopped", "crashed", "done"}
    /\ pc' = "sidebar"
    /\ selected_stocks' = <<>> /\ selected_years' = {}
    /\ shown' = <<>> /\ exc' = Null /\ df_sum' = <<>> /\ dive' = <<>>
    /\ UNCHANGED <<prices_df, parseVars, engineVars, tabVars>>

NextPage == Sidebar \/ EarlyGuards \/ Tab6 \/ Rerun

SpecPage == InitPage /\ [][NextPage]_vars

----------------------------------------------------------------------------
(* compute_corr and the two correlation views (TAB 2 and TAB 6)            *)

\* data.ffill(): every missing cell takes the last price above it.
FFill(df) ==
    [index |-> df.index,
     cols  |-> [t \in DOMAIN df.cols |->
                  [k \in 1..Len(df.index) |->
                      LET seen == {j \in 1..k : df.cols[t][j] # Null}
                      IN  IF seen = {} THEN Null
                          ELSE df.cols[t][CHOOSE j \in seen : \A i \in seen : i <= j]]]]

\* DataFrame.pct_change(): NaN on the first row; pandas 2.x forward-fills the
\* frame first (the default fill_method "pad"), pandas 3.x does not.
PctChangeFrame(df, build) ==
    LET data == IF build = "2.x" THEN FFill(df) ELSE df
    IN  [index |-> df.index,
         cols  |-> [t \in DOMAIN df.cols |->
                      [k \in 1..Len(df.index) |->
                          IF k = 1 THEN Null
                          ELSE IF data.cols[t][k] = Null \/ data.cols[t][k - 1] = Null THEN Null
                          ELSE Some(Frac(data.cols[t][k][1] - data.cols[t][k - 1][1],
                                         data.cols[t][k - 1][1]))]]]

\* DataFrame.dropna(): the rows without any NaN.
DropNaRows(df) ==
    LET kept == SelectSeq(Rows(df), LAMBDA k : \A t \in DOMAIN df.cols : df.cols[t][k] # Null)
    IN  [index |-> [j \in 1..Len(kept) |-> df.index[kept[j]]],
         cols  |-> [t \in DOMAIN df.cols |-> [j \in 1..Len(kept) |-> df.cols[t][kept[j]][1]]]]

Sign(n) == IF n > 0 THEN 1 ELSE IF n < 0 THEN -1 ELSE 0

\* One entry of DataFrame.corr() (Pearson, min_periods = 1): the covariance
\* over the root of the product of the two sums of squared deviations, NaN when
\* that divisor is 0 or there is no row.  The entry is kept as its sign and its
\* square.
CorrEntry(xs, ys) ==
    LET n   == Len(xs)
        sx  == FracSum(xs)
        sy  == FracSum(ys)
        sxy == FracSum([k \in 1..n |-> FracMul(xs[k], ys[k])])
        sxx == FracSum([k \in 1..n |-> FracMul(xs[k], xs[k])])
        syy == FracSum([k \in 1..n |-> FracMul(ys[k], ys[k])])
        cov == FracSub(FracMul(<<n, 1>>, sxy), FracMul(sx, sy))
        dx  == FracSub(FracMul(<<n, 1>>, sxx), FracMul(sx, sx))
        dy  == FracSub(FracMul(<<n, 1>>, syy), FracMul(sy, sy))
    IN  IF n < 1 \/ dx[1] = 0 \/ dy[1] = 0 THEN Null
        ELSE Some([sign |-> Sign(cov[1]),
                   sq   |-> Frac(cov[1] * cov[1] * dx[2] * dy[2],
                                 cov[2] * cov[2] * dx[1] * dy[1])])

\* The correlation 1.0
One == Some([sign |-> 1, sq |-> <<1, 1>>])

\* _df.pct_change().dropna().corr()
Corr(df, build) ==
    LET ret == DropNaRows(PctChangeFrame(df, build))
    IN  [a \in DOMAIN df.cols |-> [b \in DOMAIN df.cols |-> CorrEntry(ret.cols[a], ret.cols[b])]]

\* compute_corr under @st.cache_data (lines 128-131): the only parameter, _df,
\* begins with an underscore, so Streamlit leaves it out of the cache key; once
\* an entry exists it is returned for every later frame.
compute_corr(cache, df, build) == IF cache # Null THEN cache[1] ELSE Corr(df, build)

\* Price tables for the correlation views: four trading days in 2023 and one in
\* 2024; stock A takes every course over two price levels or misses a day,
\* stock B one of four courses.
CorrIndex == <<1, 37, 38, 39, 370>>
CorrLevels == {1, 2}
CorrColumnsA ==
    {[k \in 1..5 |-> Some(c[k])] : c \in [1..5 -> CorrLevels]}
    \cup { <<Some(1), Null, Some(2), Some(1), Some(1)>>,
           <<Null, Some(1), Some(2), Some(2), Some(1)>> }
CorrColumnsB ==
    { <<Some(1), Some(2), Some(1), Some(1), Some(2)>>,
      <<Some(1), Some(1), Some(1), Some(1), Some(1)>>,
      <<Some(2), Some(1), Some(2), Some(2), Some(1)>>,
      <<Some(1), Null, Some(2), Some(1), Some(1)>> }
CorrTables ==
    { [index |-> CorrIndex, cols |-> [t \in Tickers |-> IF t = "A" THEN a ELSE b]] :
        a \in CorrColumnsA, b \in CorrColumnsB }

InitCorr ==
    /\ prices_df \in CorrTables
    /\ pandas \in PandasBuilds
    /\ raw_index = <<>> /\ parsed = <<>> /\ q_pc = "idle" /\ q_index = <<>> /\ q_shown = <<>>
    /\ selected_stocks = <<>> /\ selected_years = {}
    /\ pc = "sidebar"
    /\ shown = <<>> /\ exc = Null
    /\ df_sum = <<>> /\ dive = <<>>
    /\ IdleEngine /\ IdleTabs

\* The correlation section of TAB 2 (lines 456-474).
Tab2 ==
    /\ pc = "tabs" /\ tab2 = Null
    /\ IF Len(selected_stocks) > 1
       THEN LET corr_matrix == compute_corr(corr_cache, filtered_prices, pandas)
            IN  /\ tab2' = Some([called |-> TRUE, info |-> FALSE, corr_matrix |-> Some(corr_matrix)])
                /\ corr_cache' = Some(corr_matrix)
       ELSE /\ tab2' = Some([called |-> FALSE, info |-> TRUE, corr_matrix |-> Null])
            /\ UNCHANGED corr_cache
    /\ UNCHANGED <<bar, sel_months, day_view, pageVars, parseVars, engineVars>>

\* A correlation bar without the guard on the number of selected stocks.
CorrBarUnguarded(cache, filtered, stocks, target, build) ==
    LET corr_matrix == compute_corr(cache, filtered, build)
    IN  [called |-> TRUE, info |-> FALSE,
         corr_vals |-> IF target \in DOMAIN corr_matrix
                       THEN Some([t \in DOMAIN corr_matrix \ {target} |-> corr_matrix[target][t]])
                       ELSE Null,
         cache |-> Some(corr_matrix)]

\* The correlation bar of TAB 6 (lines 795-811), reached when the deep-dive
\* above it did not raise.
CorrBar(cache, filtered, stocks, target, build) ==
    IF Len(stocks) > 1
    THEN LET corr_matrix == compute_corr(cache, filtered, build)
         IN  [called |-> TRUE, info |-> FALSE,
              corr_vals |-> IF target \in DOMAIN corr_matrix
                            THEN Some([t \in DOMAIN corr_matrix \ {target} |-> corr_matrix[target][t]])
                            ELSE Null,
              cache |-> Some(corr_matrix)]
    ELSE [called |-> FALSE, info |-> TRUE, corr_vals |-> Null, cache |-> cache]

\* TAB 6 after TAB 2: the deep-dive and then the correlation bar.
Tab6Corr ==
    /\ pc = "tabs" /\ tab2 # Null
    /\ \E target \in SeqToSet(selected_stocks) :
       \E compare \in {Null} \cup {Some(t) : t \in SeqToSet(selected_stocks) \ {target}} :
          LET r == DeepDive(prices_df, filtered_prices, target, compare)
              b == CorrBar(corr_cache, filtered_prices, selected_stocks, target, pandas)
          IN  /\ dive' = r
              /\ shown' = shown \o r.signal.message
              /\ exc' = r.raised
              /\ pc' = IF r.raised = Null THEN "done" ELSE "crashed"
              /\ bar' = IF r.raised = Null THEN Some([called |-> b.called, info |-> b.info,
                                                      corr_vals |-> b.corr_vals])
                        ELSE Null
              /\ corr_cache' = IF r.raised = Null THEN b.cache ELSE corr_cache
    /\ UNCHANGED <<prices_df, selected_stocks, selected_years, df_sum, tab2,
                   sel_months, day_view, parseVars, engineVars>>

\* A widget change reruns the script; the cache outlives the run.
RerunCorr ==
    /\ pc \in {"stopped", "crashed", "done"}
    /\ pc' = "sidebar"
    /\ selected_stocks' = <<>> /\ selected_years' = {}
    /\ shown' = <<>> /\ exc' = Null /\ df_sum' = <<>> /\ dive' = <<>>
    /\ tab2' = Null /\ bar' = Null
    /\ UNCHANGED <<prices_df, corr_cache, sel_months, day_view, parseVars, engineVars>>

\* The "Reload & Sync Data" button (lines 217-219): st.cache_data.clear() and
\* st.rerun().
Reload ==
    /\ pc \in {"stopped", "crashed", "done"}
    /\ corr_cache # Null
    /\ pc' = "sidebar"
    /\ corr_cache' = Null
    /\ selected_stocks' = <<>> /\ selected_years' = {}
    /\ shown' = <<>> /\ exc' = Null /\ df_sum' = <<>> /\ dive' = <<>>
    /\ tab2' = Null /\ bar' = Null
    /\ UNCHANGED <<prices_df, sel_months, day_view, parseVars, engineVars>>

NextCorr == Sidebar \/ EarlyGuards \/ Tab2 \/ Tab6Corr \/ RerunCorr \/ Reload

SpecCorr == InitCorr /\ [][NextCorr]_vars

----------------------------------------------------------------------------
(* TAB 5: the daily-return view of the selected months                     *)

\* The day numbers on which the months of a year begin (day 0 of the year is
\* its January 1st), for a common year and for the leap year 2024.
MonthStarts(y) ==
    IF y = 2024 THEN <<0, 31, 60, 91, 121, 152, 182, 213, 244, 274, 305, 335>>
    ELSE <<0, 31, 59, 90, 120, 151, 181, 212, 243, 273, 304, 334>>
YearStart(y) == IF y = 2023 THEN 0 ELSE IF y = 2024 THEN 365 ELSE 731

\* index.strftime("%Y-%m") of a date, as <<year, month>>.
MonthOf(d) ==
    LET y   == YearOf(d)
        doy == d - YearStart(y)
    IN  <<y, Cardinality({m \in 1..12 : MonthStarts(y)[m] <= doy})>>

\* available_months (lines 529-532): the months of the selected years.
AvailableMonths(df, years) ==
    {MonthOf(df.index[k]) : k \in {j \in 1..Len(df.index) : YearOf(df.index[j]) \in years}}

\* The rows of a table picked by their positions, for some of its columns.
TakeRows(df, kept, stocks) ==
    [index |-> [j \in 1..Len(kept) |-> df.index[kept[j]]],
     cols  |-> [t \in stocks |-> [j \in 1..Len(kept) |-> df.cols[t][kept[j]]]]]

\* The cells of a frame times 100.
Times100(df) ==
    [index |-> df.index,
     cols  |-> [t \in DOMAIN df.cols |->
                  [k \in 1..Len(df.index) |->
                      IF df.cols[t][k] = Null THEN Null
                      ELSE Some(FracMul(df.cols[t][k][1], <<100, 1>>))]]]

\* Lines 548-561: target_indices are the rows of the full table in the
\* selected months; the returns are taken over the full table cut after the
\* last of them, and day_view keeps the target rows.
DayView(df, stocks, months, build) ==
    LET target == SelectSeq(Rows(df), LAMBDA k : MonthOf(df.index[k]) \in months)
        head   == TakeRows(df, [k \in 1..Last(target) |-> k], SeqToSet(stocks))
        daily_ret_full == Times100(PctChangeFrame(head, build))
    IN  TakeRows(daily_ret_full, target, SeqToSet(stocks))

\* Price tables for the daily view: trading days on 2023-01-02, 2023-02-07,
\* 2023-02-08, 2023-03-07 and 2024-01-06; stock A holds any price or none on
\* each, stock B has all five or starts late.
DailyIndex == <<1, 37, 38, 65, 370>>
DailyColumnsB ==
    { <<Some(1), Some(2), Some(1), Some(2), Some(2)>>,
      <<Null, Null, Some(1), Some(2), Some(1)>> }
DailyTables ==
    { [index |-> DailyIndex, cols |-> [t \in Tickers |-> IF t = "A" THEN a ELSE b]] :
        a \in [1..5 -> Cells], b \in DailyColumnsB }

InitDaily ==
    /\ prices_df \in DailyTables
    /\ pandas \in PandasBuilds
    /\ raw_index = <<>> /\ parsed = <<>> /\ q_pc = "idle" /\ q_index = <<>> /\ q_shown = <<>>
    /\ selected_stocks = <<>> /\ selected_years = {}
    /\ pc = "sidebar"
    /\ shown = <<>> /\ exc = Null
    /\ df_sum = <<>> /\ dive = <<>>
    /\ IdleEngine /\ IdleTabs

\* TAB 5 (lines 528-657) for the months chosen in its multiselect.  When every
\* return of the view is NaN, day_view.max().idxmax() fails on line 575 and the
\* except branch shows the error instead of the view.
Tab5 ==
    /\ pc = "tabs" /\ day_view = Null
    /\ \E months \in SUBSET AvailableMonths(prices_df, selected_years) :
          /\ sel_months' = months
          /\ IF months = {} THEN day_view' = Some([state |-> "info", view |-> Null])
             ELSE LET v == DayView(prices_df, selected_stocks, months, pandas)
                  IN  IF \A t \in DOMAIN v.cols : \A k \in 1..Len(v.index) : v.cols[t][k] = Null
                      THEN day_view' = Some([state |-> "error", view |-> Null])
                      ELSE day_view' = Some([state |-> "shown", view |-> Some(v)])
    /\ UNCHANGED <<corr_cache, tab2, bar, pageVars, parseVars, engineVars>>

\* A widget change reruns the script.
RerunDaily ==
    /\ pc = "stopped" \/ pc = "crashed" \/ (pc = "tabs" /\ day_view # Null)
    /\ pc' = "sidebar"
    /\ selected_stocks' = <<>> /\ selected_years' = {}
    /\ shown' = <<>> /\ exc' = Null /\ df_sum' = <<>> /\ dive' = <<>>
    /\ sel_months' = {} /\ day_view' = Null
    /\ UNCHANGED <<prices_df, corr_cache, tab2, bar, parseVars, engineVars>>

NextDaily == Sidebar \/ EarlyGuards \/ Tab5 \/ RerunDaily

SpecDaily == InitDaily /\ [][NextDaily]_vars

----------------------------------------------------------------------------
(* engine.py: the sector loop                                              *)

\* config["sectors"], in configuration order.
Sectors ==
    << [name |-> "Banks", stocks |-> <<"A", "B">>],
       [name |-> "IT",    stocks |-> <<"B">>] >>

\* The date indexes a download can return: none, one day, two days 10 or 30
\* days apart, three days over two years.
EngineIndexes == { <<>>, <<1>>, <<1, 11>>, <<1, 31>>, <<1, 38, 525>> }

\* The closing prices a download can hold for a stock on n days: stock A has
\* any of two prices or none on each day, stock B is flat or starts a day late.
EngineLevels == {1, 2}
EngineColumns(stock, n) ==
    IF stock = "A"
    THEN [1..n -> {Null} \cup {Some(p) : p \in EngineLevels}]
    ELSE { [k \in 1..n |-> Some(1)],
           [k \in 1..n |-> IF k = 1 THEN Null ELSE Some(2)] }

\* What yf.download(...)["Close"] can hold for the stocks of a sector.
EngineFrames(stocks) ==
    UNION { { [index |-> ix, cols |-> c] :
                c \in { f \in [SeqToSet(stocks) -> UNION {EngineColumns(t, Len(ix)) : t \in SeqToSet(stocks)}] :
                           \A t \in SeqToSet(stocks) : f[t] \in EngineColumns(t, Len(ix)) } } :
            ix \in EngineIndexes }

\* The months from the first to the last date of an index, one per calendar
\* month, as resample("ME") lays them out.
MonthNumber(ym) == ym[1] * 12 + (ym[2] - 1)
MonthBins(index) ==
    LET first == MonthNumber(MonthOf(index[1]))
        last  == MonthNumber(MonthOf(Last(index)))
    IN  [j \in 1..(last - first + 1) |-> <<(first + j - 1) \div 12, ((first + j - 1) % 12) + 1>>]

\* data.resample("ME").last(): per month the last non-NaN price of each stock
\* on the rows of that month, NaN for a month without one.
ResampleLast(data) ==
    LET bins == MonthBins(data.index)
    IN  [index |-> bins,
         cols  |-> [t \in DOMAIN data.cols |->
                      [j \in 1..Len(bins) |->
                          LET rows == {k \in 1..Len(data.index) :
                                          /\ MonthOf(data.index[k]) = bins[j]
                                          /\ data.cols[t][k] # Null}
                          IN  IF rows = {} THEN Null
                              ELSE data.cols[t][CHOOSE k \in rows : \A i \in rows : i <= k]]]]

\* Monthly price differences times 100, without the division by the previous
\* month's price.
MonthlyDiff(data, build) ==
    LET last == ResampleLast(data)
    IN  [index |-> last.index,
         cols  |-> [t \in DOMAIN last.cols |->
                      [j \in 1..Len(last.index) |->
                          IF j = 1 \/ last.cols[t][j] = Null \/ last.cols[t][j - 1] = Null THEN Null
                          ELSE Some(<<(last.cols[t][j][1] - last.cols[t][j - 1][1]) * 100, 1>>)]]]

\* monthly_returns (line 79)
MonthlyReturns(data, build) == Times100(PctChangeFrame(ResampleLast(data), build))

\* calculate_cagr (lines 39-45): the int 0 for an empty frame or fewer than 30
\* days, else per stock ((last / first) ** (1 / years) - 1) * 100, NaN when the
\* first or the last cell is NaN.
calculate_cagr(data) ==
    IF IsEmptyFrame(data) THEN [kind |-> "int", value |-> 0]
    ELSE LET days == Last(data.index) - data.index[1]
         IN  IF days < 30 THEN [kind |-> "int", value |-> 0]
             ELSE LET years == Frac(days * 100, 36525)
                  IN  [kind |-> "series",
                       values |-> [t \in DOMAIN data.cols |->
                           IF data.cols[t][1] = Null \/ Last(data.cols[t]) = Null THEN Null
                           ELSE Some(PowPct(Last(data.cols[t])[1], data.cols[t][1][1], years))]]

\* The body of the try block for one sector (lines 50-104) on what the
\* download gave; fmt_ok says whether step 5 (load_workbook ... save) went
\* through.  The result is the sector's log record.
SectorRun(sector, download, flags, fmt_ok, build) ==
    IF download.kind = "raise"
    THEN [sector |-> sector.name, status |-> "error", file |-> Null, days |-> Null,
          cagr |-> Null, data |-> Null, monthly_returns |-> Null]
    ELSE IF IsEmptyFrame(download.frame) \/ Len(download.frame.index) = 0
    THEN [sector |-> sector.name, status |-> "skipped", file |-> Null, days |-> Null,
          cagr |-> Null, data |-> Null, monthly_returns |-> Null]
    ELSE LET data   == FFill(download.frame)
             days   == Last(data.index) - data.index[1]
             cagr   == IF flags.cagr THEN Some(calculate_cagr(data)) ELSE Null
             \* (0).to_frame raises AttributeError inside the with block
             failed == cagr # Null /\ cagr[1].kind = "int"
             sheets == {"prices"}
                       \cup (IF flags.monthly_returns THEN {"monthly_returns"} ELSE {})
                       \cup (IF flags.yearly_summary THEN {"summary"} ELSE {})
                       \cup (IF cagr # Null /\ ~failed THEN {"cagr"} ELSE {})
         IN  \* ExcelWriter.__exit__ saves the workbook, also on an exception
             [sector |-> sector.name,
              status |-> IF failed \/ ~fmt_ok THEN "error" ELSE "updated",
              file   |-> Some([sheets |-> sheets, formatted |-> ~failed /\ fmt_ok]),
              days   |-> Some(days),
              cagr   |-> cagr,
              data   |-> Some(data),
              monthly_returns |-> IF flags.monthly_returns
                                  THEN Some(MonthlyReturns(data, build)) ELSE Null]

InitEngine ==
    /\ analytics \in [monthly_returns : BOOLEAN, yearly_summary : BOOLEAN, cagr : BOOLEAN]
    /\ e_i = 1
    /\ e_log = <<>>
    /\ e_files = {}
    /\ e_pc = "loop"
    /\ e_data = Null /\ e_monthly = Null
    /\ pandas \in PandasBuilds
    /\ raw_index = <<>> /\ parsed = <<>> /\ q_pc = "idle" /\ q_index = <<>> /\ q_shown = <<>>
    /\ IdlePage /\ IdleTabs

\* The iteration with the try block around the whole loop instead of inside
\* it: the first failure ends the run.
ProcessSectorOuterTry ==
    /\ e_pc = "loop"
    /\ e_i <= Len(Sectors)
    /\ \E download \in {[kind |-> "raise", frame |-> Null]}
                       \cup {[kind |-> "data", frame |-> f] : f \in EngineFrames(Sectors[e_i].stocks)},
          fmt_ok \in BOOLEAN :
          LET r == SectorRun(Sectors[e_i], download, analytics, fmt_ok, pandas)
          IN  /\ e_log' = Append(e_log, [sector |-> r.sector, status |-> r.status,
                                          file |-> r.file, days |-> r.days, cagr |-> r.cagr])
              /\ e_files' = IF r.file = Null THEN e_files ELSE e_files \cup {r.sector}
              /\ e_data' = IF r.data = Null THEN e_data ELSE r.data
              /\ e_monthly' = IF r.monthly_returns = Null THEN e_monthly ELSE r.monthly_returns
              /\ e_pc' = IF r.status = "error" THEN "aborted" ELSE e_pc
    /\ e_i' = e_i + 1
    /\ UNCHANGED <<analytics, parseVars, pageVars, tabVars>>

\* One iteration of `for sector, stocks in sectors.items()`.
ProcessSector ==
    /\ e_pc = "loop"
    /\ e_i <= Len(Sectors)
    /\ \E download \in {[kind |-> "raise", frame |-> Null]}
                       \cup {[kind |-> "data", frame |-> f] : f \in EngineFrames(Sectors[e_i].stocks)},
          fmt_ok \in BOOLEAN :
          LET r == SectorRun(Sectors[e_i], download, analytics, fmt_ok, pandas)
          IN  /\ e_log' = Append(e_log, [sector |-> r.sector, status |-> r.status,
                                          file |-> r.file, days |-> r.days, cagr |-> r.cagr])
              /\ e_files' = IF r.file = Null THEN e_files ELSE e_files \cup {r.sector}
              \* the globals keep their value when the sector has no data
              /\ e_data' = IF r.data = Null THEN e_data ELSE r.data
              /\ e_monthly' = IF r.monthly_returns = Null THEN e_monthly ELSE r.monthly_returns
    /\ e_i' = e_i + 1
    /\ UNCHANGED <<analytics, e_pc, parseVars, pageVars, tabVars>>

\* print("All sectors updated!") after the loop.
FinishEngine ==
    /\ e_pc = "loop"
    /\ e_i > Len(Sectors)
    /\ e_pc' = "done"
    /\ UNCHANGED <<analytics, e_i, e_log, e_files, e_data, e_monthly, parseVars, pageVars, tabVars>>

NextEngine == ProcessSector \/ FinishEngine

SpecEngine == InitEngine /\ [][NextEngine]_vars

\* The script is one sequential process: a step that can be taken is taken
\* (yf.download, the writer and openpyxl each return or raise).
SpecEngineLive == SpecEngine /\ WF_vars(NextEngine)

----------------------------------------------------------------------------
(* Claims about parse_quarterly_index (checked under SpecParse)            *)

FourDigits(s) == Len(s) = 4 /\ \A k \in 1..4 : IsDigit(s[k])
QuarterTag(s) == Len(s) = 2 /\ s[1] = "Q" /\ s[2] \in {"1", "2", "3", "4"}

\* One of "YQq", "Qq-Y", "Y-Qq", "Qq Y" with a four-digit Y and q in 1..4.
IsQuarterForm(x) ==
    \/ Len(x) = 6 /\ FourDigits(SubSeq(x, 1, 4)) /\ QuarterTag(SubSeq(x, 5, 6))
    \/ Len(x) = 7 /\ QuarterTag(SubSeq(x, 1, 2)) /\ x[3] \in {"-", " "}
                  /\ FourDigits(SubSeq(x, 4, 7))
    \/ Len(x) = 7 /\ FourDigits(SubSeq(x, 1, 4)) /\ x[5] = "-"
                  /\ QuarterTag(SubSeq(x, 6, 7))

\* The year and the quarter a label of one of the four forms names.
FormYear(x) ==
    LET d == IF x[1] = "Q" THEN SubSeq(x, 4, 7) ELSE SubSeq(x, 1, 4)
    IN  DigitVal(d[1]) * 1000 + DigitVal(d[2]) * 100 + DigitVal(d[3]) * 10 + DigitVal(d[4])
FormQuarter(x) == IF x[1] = "Q" THEN DigitVal(x[2]) ELSE DigitVal(x[Len(x)])

\* "YYYY-MM-DD", possibly followed by a time of day.
IsFullDateText(x) ==
    /\ Len(x) >= 10
    /\ FourDigits(SubSeq(x, 1, 4))
    /\ x[5] = "-" /\ IsDigit(x[6]) /\ IsDigit(x[7])
    /\ x[8] = "-" /\ IsDigit(x[9]) /\ IsDigit(x[10])
DateYear(x) ==
    DigitVal(x[1]) * 1000 + DigitVal(x[2]) * 100 + DigitVal(x[3]) * 10 + DigitVal(x[4])
DateMonth(x) == DigitVal(x[6]) * 10 + DigitVal(x[7])
QuarterStart(month) == ((month - 1) \div 3) * 3 + 1

ParseCallEnded == q_pc \in {"returned", "raised", "filtered", "shown"}

\* C1: parse_quarterly_index never raises; it returns one result per input
\* label, in input order, each a calendar anchor or NaT, and drops no row.
C1_NeverRaises ==
    /\ q_pc # "raised"
    /\ q_pc = "returned" =>
          /\ Len(q_index) = Len(raw_index)
          /\ \A k \in 1..Len(q_index) :
                \/ q_index[k] = NaT
                \/ /\ Len(q_index[k]) = 3
                   /\ q_index[k][2] \in {1, 4, 7, 10} /\ q_index[k][3] = 1

\* C2: for every four-digit year Y and q in 1..4 the four label forms all parse
\* to the anchor (Y, (q-1)*3+1, 1): an index made of such labels only is
\* returned, and holds that anchor at each label's position.
C2_FourFormsSameAnchor ==
    (ParseCallEnded /\ \A k \in 1..Len(raw_index) : IsQuarterForm(raw_index[k]))
    => /\ q_pc # "raised"
       /\ Len(q_index) = Len(raw_index)
       /\ \A k \in 1..Len(raw_index) :
             q_index[k] = << FormYear(raw_index[k]),
                             (FormQuarter(raw_index[k]) - 1) * 3 + 1, 1 >>

\* C3: a label that matches no recognized format (none of the four quarter
\* forms, no full date string) is recorded as NaT, never as an anchor.
C3_UnrecognizedIsNaT ==
    \A k \in 1..Len(parsed) :
        LET x == Strip(raw_index[k])
        IN  (~IsQuarterForm(x) /\ ~IsFullDateText(x)) => parsed[k] = NaT

\* C4: a full date string is parsed to the anchor of the calendar quarter that
\* contains the date, or to NaT; never to the anchor of another quarter.
C4_FullDateOwnQuarter ==
    \A k \in 1..Len(parsed) :
        LET x == Strip(raw_index[k])
        IN  IsFullDateText(x) =>
               \/ parsed[k] = NaT
               \/ parsed[k] = <<DateYear(x), QuarterStart(DateMonth(x)), 1>>

----------------------------------------------------------------------------
(* Claims about the page run (checked under SpecPage)                      *)

\* The number of prices the stock has on the dates of the selected years.
ValidPoints(t) == Len(DropNa(filtered_prices, t))

PastGuards == pc \in {"stopped", "crashed", "tabs", "done"}
DiveRan == dive # <<>>

\* C5: an instrument with fewer than 2 valid prices in the selected range gets
\* an explicit insufficient-data result from every return and risk computation:
\* no row in the summary, and in the deep-dive no number for its return, its
\* drawdowns or its volatility, and no exception.
C5_InsufficientDataExplicit ==
    /\ \A k \in 1..Len(df_sum) : ValidPoints(df_sum[k].Ticker) >= 2
    /\ (DiveRan /\ Len(dive.s_index) < 2) =>
          /\ dive.metrics.raised = Null
          /\ dive.metrics.period_return = Null
          /\ dive.metrics.period_max_dd = Null
          /\ dive.metrics.alltime_max_dd = Null
          /\ dive.period_vol = Null

\* C6: when every selected instrument has fewer than 2 valid prices in the
\* selected years, the run ends at the "not enough data" stop without an
\* exception; and no tab is rendered unless some selected instrument has 2.
C6_EmptySummaryStops ==
    /\ ( /\ PastGuards
         /\ selected_years # {} /\ selected_stocks # <<>>
         /\ \A t \in SeqToSet(selected_stocks) : ValidPoints(t) < 2 )
       => (pc = "stopped" /\ shown = <<"not_enough_data">> /\ exc = Null)
    /\ pc \in {"tabs", "done"} =>
          \E t \in SeqToSet(selected_stocks) : ValidPoints(t) >= 2

\* The running maximum of the target's prices over the rows of a table up to
\* and including date d, read from the table itself.
PeakUpTo(df, t, d) ==
    LET seen == {df.cols[t][k][1] : k \in {j \in 1..Len(df.index) :
                     df.index[j] <= d /\ df.cols[t][j] # Null}}
    IN  CHOOSE m \in seen : \A p \in seen : p <= m

\* C8: for every instrument and every selected window (non-contiguous years
\* included) the minimum of the all-time drawdown is at most the minimum of the
\* period drawdown, each drawdown being (price / running maximum - 1) x 100.
C8_AllTimeDeeperThanPeriod ==
    (DiveRan /\ dive.metrics.raised = Null) =>
       /\ FracLeq(dive.metrics.alltime_max_dd[1], dive.metrics.period_max_dd[1])
       /\ \A k \in 1..Len(dive.dd_period) :
             \E j \in 1..Len(dive.dd_alltime) :
                FracLeq(dive.dd_alltime[j], dive.dd_period[k])
       /\ LET window == filtered_prices
              s_data == DropNa(window, dive.target)
          IN  \A k \in 1..Len(s_data) :
                 LET mp == PeakUpTo(window, dive.target, s_data[k][1])
                 IN  dive.dd_period[k] = Frac((s_data[k][2] - mp) * 100, mp)
       /\ LET full_series == DropNa(prices_df, dive.target)
          IN  \A j \in 1..Len(full_series) :
                 LET mf == PeakUpTo(prices_df, dive.target, full_series[j][1])
                 IN  dive.dd_alltime[j] = Frac((full_series[j][2] - mf) * 100, mf)

\* C8 witness: a non-contiguous selection (2023 and 2025 without 2024) of a
\* stock whose peak lies in the year left out, so that its all-time maximum
\* drawdown is strictly deeper than the period's.
C8_Witness ==
    /\ DiveRan /\ dive.metrics.raised = Null
    /\ selected_years = {2023, 2025}
    /\ Len(dive.s_index) >= 2
    /\ \E k \in 1..Len(dive.s_index) : YearOf(dive.s_index[k]) = 2025
    /\ FracLt(dive.metrics.alltime_max_dd[1], dive.metrics.period_max_dd[1])

\* C9: when the crossover state never flips, regime-change detection reports no
\* change (days-since is absent), and the first date of the series is never
\* itself a regime change.
C9_NoFlipNoChange ==
    (DiveRan /\ dive.signal.cross_series # Null) =>
       LET cross == dive.signal.cross_series[1]
       IN  /\ (\A k \in 1..Len(cross) : cross[k][2] = cross[1][2])
                 => dive.signal.days_since = Null
           /\ \A j \in 1..Len(dive.signal.regime_change[1]) :
                 dive.signal.regime_change[1][j] # cross[1][1]

\* C10: the crossover state is null on every date where either moving average
\* is null: such a date holds no state and is never part of regime-change
\* detection, so the first date on which the slow average is valid is no flip.
C10_NullWhereAverageNull ==
    (DiveRan /\ dive.signal.cross_series # Null) =>
       \A k \in 1..Len(dive.s_index) :
          /\ (dive.signal.ma50[k] = Null \/ dive.signal.ma200[k] = Null) =>
                /\ \A j \in 1..Len(dive.signal.cross_series[1]) :
                      dive.signal.cross_series[1][j][1] # dive.s_index[k]
                /\ \A j \in 1..Len(dive.signal.regime_change[1]) :
                      dive.signal.regime_change[1][j] # dive.s_index[k]
          /\ (k > 1 /\ dive.signal.ma200[k - 1] = Null /\ dive.signal.ma200[k] # Null) =>
                \A j \in 1..Len(dive.signal.regime_change[1]) :
                   dive.signal.regime_change[1][j] # dive.s_index[k]

----------------------------------------------------------------------------
(* Claims about the CAGR computations (checked under SpecEngine)           *)

\* C7: every CAGR computation uses elapsed_years = max(days / 365.25, 0.1): a
\* series at most 36 days long gets the exponent 1 / 0.1, the years are never
\* below 0.1, and a short window is never answered with a fixed 0.
C7_CagrUsesFlooredYears ==
    \A k \in 1..Len(e_log) :
        e_log[k].cagr # Null =>
           LET c    == e_log[k].cagr[1]
               days == e_log[k].days[1]
           IN  /\ c.kind # "int"
               /\ \A t \in DOMAIN c.values :
                     c.values[t] # Null =>
                        /\ FracLeq(<<1, 10>>, c.values[t][1].yrs)
                        /\ days <= 36 => c.values[t][1].yrs = <<1, 10>>
                        /\ days > 36 => c.values[t][1].yrs = Frac(days * 100, 36525)

----------------------------------------------------------------------------
(* Claims about the trend message of TAB 6 (checked under SpecPage)        *)

\* The number of prices the full history holds up to the last date of the window.
HistoryUpToWindowEnd ==
    Cardinality({j \in 1..Len(dive.full_index) : dive.full_index[j] <= Last(dive.s_index)})

\* An n-period moving average has a valid value on some date of the window.
HasValidAverage(ma, n) ==
    /\ \E k \in 1..Len(ma) : ma[k] # Null
    /\ dive.s_index # <<>> /\ HistoryUpToWindowEnd >= n

TrendMessages == {"bullish", "bearish"}

----------------------------------------------------------------------------
(* Claims about the correlation views (checked under SpecCorr)             *)

\* The selected instruments hold prices on at least two common dates of the
\* selected years.
OverlappingDates == Len(DropNaRows(filtered_prices).index) >= 2

\* C12: for any selection of at least 2 instruments with overlapping non-null
\* dates, the matrix compute_corr returns is symmetric and every diagonal
\* entry is 1.0, also for an instrument whose price is constant.
C12_CorrSymmetricUnitDiagonal ==
    (tab2 # Null /\ tab2[1].called /\ OverlappingDates) =>
       LET m == tab2[1].corr_matrix[1]
       IN  \A a \in DOMAIN m :
              /\ m[a][a] = One
              /\ \A b \in DOMAIN m : m[a][b] = m[b][a]

\* C13: the correlation matrix and the per-stock correlation vector are computed
\* only when at least 2 instruments are selected; with exactly 1 selected both
\* places show the "select 2 or more stocks" state and compute_corr is not
\* called.
C13_CorrNeedsTwoStocks ==
    /\ tab2 # Null =>
          /\ tab2[1].called <=> Len(selected_stocks) >= 2
          /\ tab2[1].info <=> Len(selected_stocks) = 1
          /\ tab2[1].corr_matrix # Null => tab2[1].called
    /\ bar # Null =>
          /\ bar[1].called <=> Len(selected_stocks) >= 2
          /\ bar[1].info <=> Len(selected_stocks) = 1
          /\ bar[1].corr_vals # Null => bar[1].called
    /\ (pc = "done" /\ Len(selected_stocks) = 1) =>
          /\ tab2 # Null /\ bar # Null
          /\ tab2[1].info /\ bar[1].info
          /\ ~tab2[1].called /\ ~bar[1].called

\* C13 witness: a run with one selected stock has shown both notes while the
\* cache holds the matrix of an earlier run with two.
C13_Witness ==
    /\ pc = "done" /\ Len(selected_stocks) = 1
    /\ tab2 # Null /\ tab2[1].info
    /\ bar # Null /\ bar[1].info
    /\ corr_cache # Null

----------------------------------------------------------------------------
(* Claims about the daily view of TAB 5 (checked under SpecDaily)          *)

\* The position in the full table of the j-th date of the view.
RowOfViewDate(j) ==
    CHOOSE k \in 1..Len(prices_df.index) : prices_df.index[k] = day_view[1].view[1].index[j]

\* C14: every date shown in the daily view carries the return against the
\* price of the immediately preceding trading day of the full history, not of
\* the displayed subset; so the first displayed date has a non-null return
\* whenever the stock has a price on it and an earlier trading day with a price
\* exists, also for months that are not contiguous.
C14_DailyReturnAgainstFullHistory ==
    (day_view # Null /\ day_view[1].state = "shown") =>
       LET v == day_view[1].view[1]
       IN  \A t \in DOMAIN v.cols :
              /\ \A j \in 1..Len(v.index) :
                    LET k == RowOfViewDate(j)
                    IN  (k > 1 /\ prices_df.cols[t][k] # Null /\ prices_df.cols[t][k - 1] # Null)
                           => v.cols[t][j] =
                                 Some(Frac((prices_df.cols[t][k][1] - prices_df.cols[t][k - 1][1]) * 100,
                                           prices_df.cols[t][k - 1][1]))
              /\ LET k == RowOfViewDate(1)
                 IN  ( /\ prices_df.cols[t][k] # Null
                       /\ \E i \in 1..(k - 1) : prices_df.cols[t][i] # Null )
                        => v.cols[t][1] # Null

----------------------------------------------------------------------------
(* Claims about the engine's sheets and its sector loop (SpecEngine)       *)

\* The last price of a stock observed on the days of a month, read from the
\* forward-filled prices; Null when the month has no day with a price.
LastObserved(data, t, ym) ==
    LET days == {k \in 1..Len(data.index) :
                    MonthOf(data.index[k]) = ym /\ data.cols[t][k] # Null}
    IN  IF days = {} THEN Null
        ELSE data.cols[t][CHOOSE k \in days : \A i \in days : data.index[i] <= data.index[k]]

----------------------------------------------------------------------------
(* Claims about calc_summary and the drawdowns (checked under SpecPage)    *)

\* The daily returns of a summary row's stock over the selected years.
RowReturns(row) == PctChange(DropNa(filtered_prices, row.Ticker))

\* C16: the Sharpe-like ratio of a row is cagr / vol exactly when its
\* volatility is defined and above 0, and the undefined marker otherwise
\* (volatility 0, or fewer than 2 daily returns); nothing is divided by zero.
C16_SharpeOnlyForPositiveVol ==
    \A k \in 1..Len(df_sum) :
       LET row == df_sum[k]
           ret == RowReturns(row)
       IN  /\ row.AnnVol = Null <=> Len(ret) < 2
           \* a price that never moves: every daily return is 0
           /\ (\A i \in 1..Len(ret) : ret[i] = <<0, 1>>) =>
                 (row.AnnVol \in {Null, Some(<<0, 1>>)} /\ row.Sharpe = Null)
           /\ row.Sharpe # Null <=> (row.AnnVol # Null /\ FracLt(<<0, 1>>, row.AnnVol[1]))
           /\ row.Sharpe # Null =>
                 /\ row.Sharpe[1] = [cagr |-> row.CAGR, vol |-> row.AnnVol[1]]
                 /\ row.Sharpe[1].vol[1] # 0

\* C16 witness: a summary with a row whose ratio is defined, a row of zero
\* volatility and no ratio.
C16_Witness ==
    /\ \E k \in 1..Len(df_sum) : df_sum[k].Sharpe # Null
    /\ \E k \in 1..Len(df_sum) :
          df_sum[k].AnnVol = Some(<<0, 1>>) /\ df_sum[k].Sharpe = Null

\* The all-time drawdown on the dates of the window, read from the series.
AllTimeOnWindow ==
    LET at == SelectSeq([j \in 1..Len(dive.full_index) |-> j],
                        LAMBDA j : \E k \in 1..Len(dive.s_index) : dive.s_index[k] = dive.full_index[j])
    IN  [i \in 1..Len(at) |-> dive.dd_alltime[at[i]]]

\* C17: the all-time drawdown series is re-indexed onto the filtered window: it
\* has exactly the dates of the period drawdown series, and the reported
\* all-time maximum drawdown is taken over those dates.
C17_AllTimeOnWindowDates ==
    (DiveRan /\ dive.metrics.raised = Null) =>
       /\ Len(dive.dd_alltime) = Len(dive.dd_period)
       /\ dive.full_index = dive.s_index
       /\ dive.metrics.alltime_max_dd = Some(FracMin(AllTimeOnWindow))


\* The quarters whose label is written year first ("YQq").
QuarterNumbers == 1..4

\* C18: for every year Y and quarter q in 1..4 the period string "YQq" the
\* dashboard displays for the anchor (Y, first month of q, 1) parses back
\* through parse_quarterly_index to that anchor, and parsing the displayed
\* label of every parsed anchor gives the anchor again.
C18_RoundTripOfQuarterLabels ==
    /\ ParseCallEnded =>
          \A k \in 1..Len(raw_index) : \A y \in LabelYears, q \in QuarterNumbers :
              raw_index[k] = FormYQ(y, q) =>
                  /\ q_pc # "raised"
                  /\ parsed[k] = <<y, AnchorMonth(q), 1>>
    /\ q_pc = "shown" =>
          \A k \in 1..Len(q_index) : ParseLabel(q_shown[k]) = SortDescending(q_index)[k]

\* The first half alone, and the second half alone.
C18_YearFirstLabelsParse ==
    ParseCallEnded =>
        \A k \in 1..Len(raw_index) : \A y \in LabelYears, q \in QuarterNumbers :
            raw_index[k] = FormYQ(y, q) =>
                q_pc # "raised" /\ parsed[k] = <<y, AnchorMonth(q), 1>>
C18_DisplayedLabelsParseBack ==
    q_pc = "shown" => \A k \in 1..Len(q_index) : ParseLabel(q_shown[k]) = SortDescending(q_index)[k]
C18_FourDigitYearsParseBack ==
    q_pc = "shown" =>
        \A k \in 1..Len(q_index) : SortDescending(q_index)[k][1] >= 1000 => ParseLabel(q_shown[k]) = SortDescending(q_index)[k]


\* What the loop has done so far: one record per sector attempted, in the
\* order of the configuration; a sector whose download was empty has no
\* workbook; the message after the loop follows the last sector.
SectorsInOrder ==
    /\ Len(e_log) = e_i - 1
    /\ Len(e_log) <= Len(Sectors)
    /\ \A k \in 1..Len(e_log) :
          /\ e_log[k].sector = Sectors[k].name
          /\ e_log[k].status \in {"updated", "skipped", "error"}
          /\ e_log[k].status = "skipped" =>
                e_log[k].file = Null /\ Sectors[k].name \notin e_files
    /\ e_pc = "done" => Len(e_log) = Len(Sectors)

\* C19: every configured sector is attempted exactly once in configuration
\* order; a failure (download, CAGR sheet, formatting) or an empty download
\* for one sector never keeps the later sectors from being processed; the
\* run always reaches the final message; an empty download writes no
\* workbook.
C19_EverySectorAttemptedRunCompletes ==
    /\ []SectorsInOrder
    /\ <>(e_pc = "done" /\ Len(e_log) = Len(Sectors))

\* The run is complete although the first sector failed in the CAGR sheet
\* and the second one had nothing to download.
C19_Witness ==
    /\ e_pc = "done"
    /\ Len(e_log) = Len(Sectors)
    /\ e_log[1].status = "error" /\ e_log[1].cagr # Null /\ e_log[1].cagr[1].kind = "int"
    /\ e_log[2].status = "skipped"


\* For one drawdown series `dd` of stock t computed from table df: at every
\* date it is at most 0, it is 0 exactly where the price equals the highest
\* price seen up to that date, and it is above -100.
DrawdownWithinBounds(dd, df, t) ==
    LET series == DropNa(df, t)
    IN  /\ Len(dd) = Len(series)
        /\ \A k \in 1..Len(series) :
              /\ series[k][2] > 0
              /\ FracLeq(dd[k], <<0, 1>>)
              /\ (dd[k][1] = 0) <=> (series[k][2] = PeakUpTo(df, t, series[k][1]))
              /\ FracLt(<<-100, 1>>, dd[k])
        /\ Len(dd) >= 1 => dd[1][1] = 0

\* C20: for every positive price series both drawdown series satisfy at
\* every date: drawdown <= 0, drawdown = 0 exactly on the dates where the
\* price equals the running maximum (in particular on the first date), and
\* drawdown > -100.
C20_DrawdownBounds ==
    DiveRan =>
       /\ DrawdownWithinBounds(dive.dd_period, filtered_prices, dive.target)
       /\ DrawdownWithinBounds(dive.dd_alltime, prices_df, dive.target)

\* A window in which the price falls below an earlier high and later is back
\* at the high, inside a longer history with a fall of its own.
C20_Witness ==
    /\ DiveRan
    /\ Len(dive.dd_period) >= 3
    /\ Len(dive.dd_alltime) > Len(dive.dd_period)
    /\ \E k \in 2..Len(dive.dd_period) :
          /\ dive.dd_period[k][1] < 0
          /\ \E j \in (k + 1)..Len(dive.dd_period) : dive.dd_period[j][1] = 0
    /\ \E k \in 2..Len(dive.dd_alltime) : dive.dd_alltime[k][1] < 0

====
